---- MODULE Spec2Model ----
(***************************************************************************)
(* Model of BehaveAI's annotation regeneration:                            *)
(*   - Regenerate_annotations.py: load_config, generate_base_images (the   *)
(*     window sampler, the temporal diff engine and the motion compositor) *)
(*     and the batch loop of regenerate_annotations;                       *)
(*   - config_watcher.py: the settings snapshot comparison.                *)
(*                                                                         *)
(* Images are modelled as uniform-colour frames: one BGR pixel value plus  *)
(* the frame's dimensions.  Real-valued settings are fixed-point numbers:  *)
(* weights in tenths, config_watcher floats in units of 1e-7.              *)
(***************************************************************************)
EXTENDS Integers, Sequences, FiniteSets, TLC

\* ------------------------------------------------------------------ bounds
MaxFrames == 8      \* largest frame count a video reports
MaxTarget == 8      \* largest frame_num asked for
MaxBaseN == 4       \* largest base_frame_window
MaxSkip == 1        \* largest frame_skip
MaxSeed == 1        \* videos differ by their pixel pattern 0..MaxSeed

\* ------------------------------------------------------- program constants
SafetyMargin == 10          \* the "+ 10" of the read loop's safety break
DefaultExpA == 5            \* expA default 0.5, in tenths
DefaultExpB == 8            \* expB default 0.8, in tenths
DefaultLumWeight == 7       \* lum_weight default 0.7, in tenths
VideoSide == 4              \* width and height of the modelled videos

\* ------------------------------------------------------------ pixel algebra
Max2(a, b) == IF a >= b THEN a ELSE b

Min2(a, b) == IF a <= b THEN a ELSE b

Abs(x) == IF x >= 0 THEN x ELSE 0 - x

\* saturate_cast<uchar>
Saturate8(x) == Max2(0, Min2(255, x))

\* cvRound of n/d (d > 0): round half to even
RoundDiv(n, d) ==
  LET q == n \div d
      r == n % d
  IN  IF 2 * r < d THEN q
      ELSE IF 2 * r > d THEN q + 1
      ELSE IF q % 2 = 0 THEN q ELSE q + 1

\* cv2.cvtColor(frame, COLOR_BGR2GRAY) on one pixel <<b, g, r>>:
\* the 14-bit fixed-point luma of the 8-bit path
BGR2GRAY(px) == (px[1] * 1868 + px[2] * 9617 + px[3] * 4899 + 8192) \div 16384

\* cv2.absdiff on 8-bit values
AbsDiff(a, b) == Abs(a - b)

\* cv2.subtract on 8-bit values: saturating
CvSubtract(a, b) == Saturate8(a - b)

\* cv2.addWeighted(src1, alpha, src2, beta, gamma), alpha and beta in tenths
AddWeighted(src1, alpha10, src2, beta10, gamma) ==
  Saturate8(RoundDiv(src1 * alpha10 + src2 * beta10 + gamma * 10, 10))

\* ------------------------------------------------------------- load_config
BaseWindows == 1..MaxBaseN

FrameWindow(base_window, frame_skip) == base_window * (frame_skip + 1)

MotionThreshold(raw) == (0 - 1) * raw

ParamsOf(bw, skip, strat, chroma, scale, rgb, thr) ==
  [ scale_factor |-> scale,
    expA |-> DefaultExpA,
    expB |-> DefaultExpB,
    strategy |-> strat,
    chromatic_tail_only |-> chroma,
    lum_weight |-> DefaultLumWeight,
    rgb_multipliers |-> rgb,
    frame_skip |-> skip,
    motion_threshold |-> MotionThreshold(thr),
    base_frame_window |-> bw,
    frame_window |-> FrameWindow(bw, skip) ]

Strategies == {"exponential", "sequential"}

ChromaFlags == {"true", "false"}

ScaleFactors == {10, 5}

RgbChoices == {<<10, 20, 5>>, <<0, 15, 30>>}

Thresholds == {3}

ParamSpace ==
  { ParamsOf(bw, skip, strat, chroma, scale, rgb, thr) :
      bw \in BaseWindows, skip \in 0..MaxSkip, strat \in Strategies,
      chroma \in ChromaFlags, scale \in ScaleFactors, rgb \in RgbChoices,
      thr \in Thresholds }

\* ------------------------------------------------------------------ videos
\* the decoded frame n of the video with pixel pattern seed
FramePixel(seed, n) ==
  << (seed * 40 + n * 67) % 256,
     (n * n * 29 + seed * 13 + 20) % 256,
     (n * 101 + 50) % 256 >>

DecodedFrame(video, n) ==
  [ idx |-> n, px |-> FramePixel(video.seed, n), w |-> VideoSide, h |-> VideoSide ]

\* cv2.resize(frame, None, fx = f, fy = f) of a uniform-colour frame
Resize(frame, scale10) ==
  [ frame EXCEPT !.w = Max2(1, RoundDiv(frame.w * scale10, 10)),
                 !.h = Max2(1, RoundDiv(frame.h * scale10, 10)) ]

VideoSpace ==
  [ openable : BOOLEAN, total_frames : (0 - 1)..MaxFrames, seed : 0..MaxSeed ]

NoVideo == [ openable |-> FALSE, total_frames |-> 0, seed |-> 0 ]

\* ---------------------------------------------------------- absent values
NoImg == [ idx |-> 0 - 1, px |-> <<>>, w |-> 0, h |-> 0 ]

NoGray == 0 - 1

NoDiffs == <<>>

NoParams == ParamsOf(1, 0, "sequential", "false", 10, <<10, 10, 10>>, 0)


\* ------------------------------------------------------------------- state
VARIABLES
  gpc,          \* position inside generate_base_images
  params,       \* the params dict of load_config
  video,        \* the video file behind video_path
  frame_num,    \* the target frame
  cap_open,     \* the VideoCapture is open
  releases,     \* number of cap.release() calls of this call
  cap_pos,      \* CAP_PROP_POS_FRAMES, the decoder's cursor
  start_frame, collected, read_count, idx,
  attempts,     \* number of cap.read() calls of this call
  read_failed,  \* some cap.read() returned ret = False
  di,           \* index into collected of the diff loop (1-based)
  prev_frames, static_img, diffs, gray,
  tails,        \* <<tb, tg, tr>> of the chromatic tail mode
  ret,          \* the returned pair
  bpc,          \* position inside regenerate_annotations
  base_names,   \* the work items found under annot_motion/labels
  pending,      \* the items the for loop has not reached yet
  current,      \* the item of the current iteration
  written,      \* base names whose motion image was written
  log,          \* the lines printed per item, in order
  config,       \* BehaveAI_settings.ini: its raw content, or NoFile
  config_mtime, \* its modification time
  clock,        \* the file system's time
  snapshots,    \* per directory: <dir>/saved_settings.ini, content and mtime
  models,       \* the directories holding train/weights/best.pt
  regen_runs,   \* number of runs of the regeneration script
  check         \* the last call of check_settings_changed and its outcome

inputVars == <<params, video, frame_num>>

batchVars == <<bpc, base_names, pending, current, written, log>>

watchVars == <<config, config_mtime, clock, snapshots, models, regen_runs, check>>

capVars == <<cap_open, releases, cap_pos>>

sampleVars == <<start_frame, collected, read_count, idx, attempts, read_failed>>

diffVars == <<di, prev_frames, static_img, diffs, gray>>

genVars == <<gpc, inputVars, capVars, sampleVars, diffVars, tails, ret>>

NoneNone == [ static |-> NoImg, motion |-> NoImg ]

\* the locals of generate_base_images before the call has run
GenFresh ==
  /\ cap_open = FALSE /\ releases = 0 /\ cap_pos = 0
  /\ start_frame = 0 /\ collected = <<>> /\ read_count = 0 /\ idx = 0
  /\ attempts = 0 /\ read_failed = FALSE
  /\ di = 1 /\ prev_frames = <<>> /\ static_img = NoImg
  /\ diffs = NoDiffs /\ gray = NoGray
  /\ tails = <<>> /\ ret = NoneNone

\* -------------------------------------------------- generate_base_images
StepOf(p) == p.frame_skip + 1


\* the window taken one stride too long
StartFrameOffByOne(target, base_N, step) == Max2(0, target - base_N * step)

StartFrame(target, base_N, step) == Max2(0, target - (base_N - 1) * step)

StartBeyondEnd(start, total) == start > total - 1


\* the last frame of the video is never read
LoopCondDropsLast(n_collected, base_N, i, total) == n_collected < base_N /\ i < total - 1

\* the loop relies on its breaks alone
LoopCondAlways(n_collected, base_N, i, total) == TRUE

LoopCond(n_collected, base_N, i, total) == n_collected < base_N /\ i <= total - 1

Retains(count, step) == count % step = 0

SafetyBreak(count, frame_window) == count > frame_window + SafetyMargin

\* lines 63-66: the video cannot be opened
OpenFails ==
  /\ gpc = "call"
  /\ ~video.openable
  /\ gpc' = "returned"
  /\ ret' = NoneNone
  /\ UNCHANGED <<watchVars, batchVars, inputVars, capVars, sampleVars, diffVars, tails>>

\* lines 68-72: the reported frame count is not positive
EmptyVideo ==
  /\ gpc = "call"
  /\ video.openable
  /\ video.total_frames <= 0
  /\ cap_open' = FALSE
  /\ releases' = releases + 1
  /\ gpc' = "returned"
  /\ ret' = NoneNone
  /\ UNCHANGED <<watchVars, batchVars, inputVars, cap_pos, sampleVars, diffVars, tails>>

\* lines 74-85: the clamped start frame lies beyond the video
StartBeyond ==
  /\ gpc = "call"
  /\ video.openable
  /\ video.total_frames > 0
  /\ LET s == StartFrame(frame_num, params.base_frame_window, StepOf(params))
     IN  /\ StartBeyondEnd(s, video.total_frames)
         /\ start_frame' = s
  /\ cap_open' = FALSE
  /\ releases' = releases + 1
  /\ gpc' = "returned"
  /\ ret' = NoneNone
  /\ UNCHANGED <<watchVars, batchVars, inputVars, cap_pos, collected, read_count, idx, attempts,
                 read_failed, diffVars, tails>>

\* lines 74-91: the start frame is accepted and the cursor is set to it
SeekStart ==
  /\ gpc = "call"
  /\ video.openable
  /\ video.total_frames > 0
  /\ LET s == StartFrame(frame_num, params.base_frame_window, StepOf(params))
     IN  /\ ~StartBeyondEnd(s, video.total_frames)
         /\ start_frame' = s
         /\ cap_pos' = s
         /\ idx' = s
  /\ cap_open' = TRUE
  /\ collected' = <<>>
  /\ read_count' = 0
  /\ gpc' = "sample"
  /\ UNCHANGED <<watchVars, batchVars, inputVars, releases, attempts, read_failed, diffVars, tails, ret>>

\* lines 92-105, ret = True: one decoded frame
ReadFrame ==
  /\ gpc = "sample"
  /\ LoopCond(Len(collected), params.base_frame_window, idx, video.total_frames)
  /\ LET frame == DecodedFrame(video, cap_pos)
         kept == IF params.scale_factor # 10
                 THEN Resize(frame, params.scale_factor) ELSE frame
     IN  collected' = IF Retains(read_count, StepOf(params))
                      THEN Append(collected, kept) ELSE collected
  /\ cap_pos' = cap_pos + 1
  /\ attempts' = attempts + 1
  /\ read_count' = read_count + 1
  /\ idx' = idx + 1
  /\ gpc' = IF SafetyBreak(read_count + 1, params.frame_window)
            THEN "sampled" ELSE "sample"
  /\ UNCHANGED <<watchVars, batchVars, inputVars, cap_open, releases, start_frame, read_failed,
                 diffVars, tails, ret>>

\* lines 93-95, ret = False: the decoder has no frame to give
ReadFails ==
  /\ gpc = "sample"
  /\ LoopCond(Len(collected), params.base_frame_window, idx, video.total_frames)
  /\ attempts' = attempts + 1
  /\ read_failed' = TRUE
  /\ gpc' = "sampled"
  /\ UNCHANGED <<watchVars, batchVars, inputVars, capVars, start_frame, collected, read_count, idx,
                 diffVars, tails, ret>>

\* line 92: the loop condition fails
LoopExit ==
  /\ gpc = "sample"
  /\ ~LoopCond(Len(collected), params.base_frame_window, idx, video.total_frames)
  /\ gpc' = "sampled"
  /\ UNCHANGED <<watchVars, batchVars, inputVars, capVars, sampleVars, diffVars, tails, ret>>


\* the early return forgets cap.release()
NoFramesLeaks ==
  /\ gpc = "sampled"
  /\ collected = <<>>
  /\ gpc' = "returned"
  /\ ret' = NoneNone
  /\ UNCHANGED <<watchVars, batchVars, inputVars, capVars, sampleVars, diffVars, tails>>

\* lines 107-111: nothing was collected
NoFrames ==
  /\ gpc = "sampled"
  /\ collected = <<>>
  /\ cap_open' = FALSE
  /\ releases' = releases + 1
  /\ gpc' = "returned"
  /\ ret' = NoneNone
  /\ UNCHANGED <<watchVars, batchVars, inputVars, cap_pos, sampleVars, diffVars, tails>>

\* lines 116-119: the locals of the diff loop
BeginDiff ==
  /\ gpc = "sampled"
  /\ collected # <<>>
  /\ prev_frames' = <<NoGray, NoGray, NoGray>>
  /\ static_img' = NoImg
  /\ diffs' = NoDiffs
  /\ gray' = NoGray
  /\ di' = 1
  /\ gpc' = "diff"
  /\ UNCHANGED <<watchVars, batchVars, inputVars, capVars, sampleVars, tails, ret>>


\* the first frame falls through to the diff code (the continue is missing)
InitFrameFallsThrough ==
  /\ gpc = "diff"
  /\ di <= Len(collected)
  /\ static_img = NoImg
  /\ LET g == BGR2GRAY(collected[di].px)
     IN  /\ gray' = g
         /\ prev_frames' = <<g, g, g>>
         /\ diffs' = <<0, 0, 0>>
  /\ static_img' = collected[di]
  /\ di' = di + 1
  /\ UNCHANGED <<gpc, watchVars, batchVars, inputVars, capVars, sampleVars, tails, ret>>

\* lines 121-133: the first frame initialises the three references
InitFrame ==
  /\ gpc = "diff"
  /\ di <= Len(collected)
  /\ static_img = NoImg
  /\ LET g == BGR2GRAY(collected[di].px)
     IN  /\ gray' = g
         /\ prev_frames' = <<g, g, g>>
  /\ static_img' = collected[di]
  /\ di' = di + 1
  /\ UNCHANGED <<gpc, watchVars, batchVars, inputVars, capVars, sampleVars, diffs, tails, ret>>

CurrentDiffs(prev, g) == [ j \in 1..3 |-> AbsDiff(prev[j], g) ]

ExponentialUpdate(prev, g, expA, expB) ==
  << g,
     AddWeighted(prev[2], expA, g, 10 - expA, 0),
     AddWeighted(prev[3], expB, g, 10 - expB, 0) >>


\* the shift done in the wrong order: ref[1] is overwritten before it is copied
SequentialUpdateWrongOrder(prev, g) == << g, prev[1], prev[1] >>

SequentialUpdate(prev, g) == << g, prev[1], prev[2] >>

UpdatePrev(prev, g, p) ==
  CASE p.strategy = "exponential" -> ExponentialUpdate(prev, g, p.expA, p.expB)
    [] p.strategy = "sequential" -> SequentialUpdate(prev, g)
    [] OTHER -> prev


\* the references are moved before the diffs are taken
DiffStepUpdatesFirst ==
  /\ gpc = "diff"
  /\ di <= Len(collected)
  /\ static_img # NoImg
  /\ LET g == BGR2GRAY(collected[di].px)
     IN  /\ gray' = g
         /\ diffs' = CurrentDiffs(UpdatePrev(prev_frames, g, params), g)
         /\ prev_frames' = UpdatePrev(prev_frames, g, params)
  /\ static_img' = collected[di]
  /\ di' = di + 1
  /\ UNCHANGED <<gpc, watchVars, batchVars, inputVars, capVars, sampleVars, tails, ret>>

\* lines 121-150: every later frame is diffed, then the references move
DiffStep ==
  /\ gpc = "diff"
  /\ di <= Len(collected)
  /\ static_img # NoImg
  /\ LET g == BGR2GRAY(collected[di].px)
     IN  /\ gray' = g
         /\ diffs' = CurrentDiffs(prev_frames, g)
         /\ prev_frames' = UpdatePrev(prev_frames, g, params)
  /\ static_img' = collected[di]
  /\ di' = di + 1
  /\ UNCHANGED <<gpc, watchVars, batchVars, inputVars, capVars, sampleVars, tails, ret>>

\* lines 152-157: no diff was computed
Insufficient ==
  /\ gpc = "diff"
  /\ di > Len(collected)
  /\ (diffs = NoDiffs \/ gray = NoGray)
  /\ cap_open' = FALSE
  /\ releases' = releases + 1
  /\ gpc' = "returned"
  /\ ret' = NoneNone
  /\ UNCHANGED <<watchVars, batchVars, inputVars, cap_pos, sampleVars, diffVars, tails>>

TailsOf(d) == << CvSubtract(d[1], d[2]), CvSubtract(d[2], d[1]), CvSubtract(d[3], d[2]) >>


\* the multipliers taken at the same index as the signal
BlendSameIndex(lum, s, p) ==
  << AddWeighted(lum, p.lum_weight, s[1], p.rgb_multipliers[1], p.motion_threshold),
     AddWeighted(lum, p.lum_weight, s[2], p.rgb_multipliers[2], p.motion_threshold),
     AddWeighted(lum, p.lum_weight, s[3], p.rgb_multipliers[3], p.motion_threshold) >>

\* lines 165-171: <<blue, green, red>> from the signals s and the luminance
Blend(lum, s, p) ==
  << AddWeighted(lum, p.lum_weight, s[1], p.rgb_multipliers[3], p.motion_threshold),
     AddWeighted(lum, p.lum_weight, s[2], p.rgb_multipliers[2], p.motion_threshold),
     AddWeighted(lum, p.lum_weight, s[3], p.rgb_multipliers[1], p.motion_threshold) >>

\* lines 159-176: the motion image is built and the pair returned
Composite ==
  /\ gpc = "diff"
  /\ di > Len(collected)
  /\ ~(diffs = NoDiffs \/ gray = NoGray)
  /\ LET chroma == params.chromatic_tail_only = "true"
         s == IF chroma THEN TailsOf(diffs) ELSE diffs
     IN  /\ tails' = IF chroma THEN TailsOf(diffs) ELSE tails
         /\ ret' = [ static |-> static_img,
                     motion |-> [ static_img EXCEPT !.px = Blend(gray, s, params) ] ]
  /\ cap_open' = FALSE
  /\ releases' = releases + 1
  /\ gpc' = "returned"
  /\ UNCHANGED <<watchVars, batchVars, inputVars, cap_pos, sampleVars, diffVars>>

GenStep ==
  \/ OpenFails \/ EmptyVideo \/ StartBeyond \/ SeekStart
  \/ ReadFrame \/ ReadFails \/ LoopExit
  \/ NoFrames \/ BeginDiff \/ InitFrame \/ DiffStep
  \/ Insufficient \/ Composite

\* ------------------------------------------------- regenerate_annotations
MaxItems == 2       \* largest number of label files of a batch

NoItem ==
  [ name |-> "", token_is_int |-> FALSE, frame_num |-> 0, has_video |-> FALSE,
    video |-> NoVideo, mask_ok |-> TRUE ]

WorkItem(name, is_int, target, found, v, mask_ok) ==
  [ name |-> name, token_is_int |-> is_int, frame_num |-> target,
    has_video |-> found, video |-> v, mask_ok |-> mask_ok ]

ClipA == [ openable |-> TRUE, total_frames |-> MaxFrames, seed |-> 0 ]

ClipShort == [ openable |-> TRUE, total_frames |-> 2, seed |-> 1 ]

ClipEmpty == [ openable |-> TRUE, total_frames |-> 0, seed |-> 0 ]

ClipBroken == [ openable |-> FALSE, total_frames |-> 0, seed |-> 0 ]

\* the label files a batch may find: base name, trailing token, clip, masks
Catalog ==
  { WorkItem("clipA_final", FALSE, 0, TRUE, ClipA, TRUE),
    WorkItem("ghost_3", TRUE, 3, FALSE, NoVideo, TRUE),
    WorkItem("broken_2", TRUE, 2, TRUE, ClipBroken, TRUE),
    WorkItem("empty_1", TRUE, 1, TRUE, ClipEmpty, TRUE),
    WorkItem("clipA_7", TRUE, 7, TRUE, ClipA, TRUE),
    WorkItem("clipA_2", TRUE, 2, TRUE, ClipA, FALSE),
    WorkItem("short_6", TRUE, 6, TRUE, ClipShort, TRUE) }

BatchParamSpace ==
  { p \in ParamSpace : p.scale_factor = 10 /\ p.rgb_multipliers = <<10, 20, 5>> }

\* the print of one item's outcome
LogLine(item, what) == [ name |-> item.name, what |-> what ]


\* the ValueError of int(parts[-1]) is not caught and ends the run
BadTokenAborts ==
  /\ bpc = "loop"
  /\ \E item \in pending :
       /\ ~item.token_is_int
       /\ current' = item
       /\ pending' = pending \ {item}
  /\ bpc' = "aborted"
  /\ UNCHANGED <<base_names, written, log, genVars, watchVars>>

\* lines 250-255: int(parts[-1]) raises ValueError, the item is skipped
SkipBadToken ==
  /\ bpc = "loop"
  /\ \E item \in pending :
       /\ ~item.token_is_int
       /\ current' = item
       /\ pending' = pending \ {item}
       /\ log' = Append(log, LogLine(item, "skipped: token"))
  /\ UNCHANGED <<bpc, base_names, written, genVars, watchVars>>

\* lines 258-270: no clip with a known extension, the item is skipped
SkipNoVideo ==
  /\ bpc = "loop"
  /\ \E item \in pending :
       /\ item.token_is_int
       /\ ~item.has_video
       /\ current' = item
       /\ pending' = pending \ {item}
       /\ log' = Append(log, LogLine(item, "skipped: video not found"))
  /\ UNCHANGED <<bpc, base_names, written, genVars, watchVars>>

\* line 273: generate_base_images(video_path, frame_num, params) is called
CallGenerate ==
  /\ bpc = "loop"
  /\ \E item \in pending :
       /\ item.token_is_int
       /\ item.has_video
       /\ current' = item
       /\ pending' = pending \ {item}
       /\ video' = item.video
       /\ frame_num' = item.frame_num
  /\ bpc' = "generate"
  /\ gpc' = "call"
  /\ cap_open' = FALSE /\ releases' = 0 /\ cap_pos' = 0
  /\ start_frame' = 0 /\ collected' = <<>> /\ read_count' = 0 /\ idx' = 0
  /\ attempts' = 0 /\ read_failed' = FALSE
  /\ di' = 1 /\ prev_frames' = <<>> /\ static_img' = NoImg
  /\ diffs' = NoDiffs /\ gray' = NoGray
  /\ tails' = <<>> /\ ret' = NoneNone
  /\ UNCHANGED <<params, base_names, written, log, watchVars>>

\* lines 274-276: static_img is None, the item is skipped
SkipAbsent ==
  /\ bpc = "generate"
  /\ gpc = "returned"
  /\ ret.static = NoImg
  /\ log' = Append(log, LogLine(current, "skipped: no images"))
  /\ bpc' = "loop"
  /\ UNCHANGED <<base_names, pending, current, written, genVars, watchVars>>

\* lines 286-287 (186): a mask line with a non-integer token raises ValueError,
\* which nothing catches
MaskError ==
  /\ bpc = "generate"
  /\ gpc = "returned"
  /\ ret.static # NoImg
  /\ ~current.mask_ok
  /\ bpc' = "aborted"
  /\ UNCHANGED <<base_names, pending, current, written, log, genVars, watchVars>>

\* lines 278-312: the motion image is masked and written
WriteMotion ==
  /\ bpc = "generate"
  /\ gpc = "returned"
  /\ ret.static # NoImg
  /\ current.mask_ok
  /\ IF ret.motion = NoImg
     THEN /\ log' = Append(log, LogLine(current, "no motion image"))
          /\ written' = written
     ELSE /\ log' = Append(log, LogLine(current, "regenerated"))
          /\ written' = written \cup {current.name}
  /\ bpc' = "loop"
  /\ UNCHANGED <<base_names, pending, current, genVars, watchVars>>

\* line 248: the for loop has no item left
Finish ==
  /\ bpc = "loop"
  /\ pending = {}
  /\ bpc' = "done"
  /\ UNCHANGED <<base_names, pending, current, written, log, genVars, watchVars>>

BatchStep ==
  \/ SkipBadToken \/ SkipNoVideo \/ CallGenerate
  \/ SkipAbsent \/ MaskError \/ WriteMotion \/ Finish

\* ---------------------------------------------------------- config_watcher
MaxClock == 1       \* number of edits of the settings file
MaxRegen == 1       \* number of runs of the regeneration script

FloatUnit == 1000 * 1000 * 10   \* model floats are integers in units of 1e-7
FLOAT_TOL == 10         \* 1e-6 in units of 1e-7

RELEVANT_KEYS ==
  << "frame_skip", "motion_threshold", "strategy", "chromatic_tail_only",
     "expA", "expB", "lum_weight", "rgb_multipliers" >>

\* str.strip() on the texts of the modelled files
Strip(t) ==
  CASE t = " Exponential" -> "Exponential"
    [] t = " 1.0" -> "1.0"
    [] t = " " -> ""
    [] OTHER -> t

\* str.lower() on the texts of the modelled files
Lower(t) ==
  CASE t = "Exponential" -> "exponential"
    [] t = "False" -> "false"
    [] OTHER -> t

\* int(text)
ParseInt(t) ==
  CASE t = "0" -> 0
    [] t = "1" -> 1
    [] t = "5" -> 5

\* float(text), in units of 1e-7
ParseFloat(t) ==
  CASE t = "0.5" -> 5000000
    [] t = "0.5000005" -> 5000005
    [] t = "0.500002" -> 5000020
    [] t = "0.8" -> 8000000
    [] t = "0.7" -> 7000000
    [] t = "1" -> 10000000
    [] t = "1.0" -> 10000000

\* lines 77-82; the text is given as its pieces between the commas
ParseRgbMultipliers(pieces) ==
  LET kept == SelectSeq(pieces, LAMBDA piece : Strip(piece) # "")
  IN  [ k \in 1..Len(kept) |-> ParseFloat(Strip(kept[k])) ]

NoFile == [ exists |-> FALSE ]

IniFile(skip, thr, strat, chroma, a, b, lw, rgb) ==
  [ exists |-> TRUE, frame_skip |-> skip, motion_threshold |-> thr,
    strategy |-> strat, chromatic_tail_only |-> chroma,
    expA |-> a, expB |-> b, lum_weight |-> lw, rgb_multipliers |-> rgb ]

CfgBase ==
  IniFile("0", "5", "exponential", "false", "0.5", "0.8", "0.7", <<"1.0", "1.0", "1.0">>)

\* the same settings written differently
CfgRespelled ==
  IniFile("0", "5", " Exponential", "False", "0.5000005", "0.8", "0.7",
          <<"1", " 1.0", " ", "1.0">>)

\* other settings: frame_skip, expA and the multiplier list differ
CfgChanged ==
  IniFile("1", "5", "exponential", "false", "0.500002", "0.8", "0.7", <<"1.0", "1.0">>)

IniFiles == {CfgBase, CfgRespelled, CfgChanged}

\* lines 85-103
ReadMotionSettings(file) ==
  [ frame_skip |-> ParseInt(file.frame_skip),
    motion_threshold |-> ParseInt(file.motion_threshold),
    strategy |-> Lower(Strip(file.strategy)),
    chromatic_tail_only |-> Lower(Strip(file.chromatic_tail_only)),
    expA |-> ParseFloat(file.expA),
    expB |-> ParseFloat(file.expB),
    lum_weight |-> ParseFloat(file.lum_weight),
    rgb_multipliers |-> ParseRgbMultipliers(file.rgb_multipliers) ]

IsListKey(k) == k = "rgb_multipliers"

IsIntKey(k) == k \in {"frame_skip", "motion_threshold"}

IsTextKey(k) == k \in {"strategy", "chromatic_tail_only"}

\* float(v) of a value of the settings dict, in units of 1e-7
AsFloat(k, v) == IF IsIntKey(k) THEN v * FloatUnit ELSE v

\* lines 118-140: one key's values differ
ValueDiffers(k, va, vb) ==
  IF IsListKey(k)
  THEN \/ Len(va) # Len(vb)
       \/ \E n \in 1..Len(va) : Abs(va[n] - vb[n]) > FLOAT_TOL
  ELSE IF IsTextKey(k)
  THEN Lower(Strip(va)) # Lower(Strip(vb))
  ELSE Abs(AsFloat(k, va) - AsFloat(k, vb)) > FLOAT_TOL

\* lines 106-141
SettingsDifferent(a, b) ==
  \E n \in 1..Len(RELEVANT_KEYS) :
    LET k == RELEVANT_KEYS[n]
    IN  \/ k \notin DOMAIN a
        \/ k \notin DOMAIN b
        \/ ValueDiffers(k, a[k], b[k])

\* the directories of the workspace that may hold a model
Dirs == {"runs/motion_v1", "runs/static_v1"}

MotionNamed(d) == d = "runs/motion_v1"

NoSnapshot == [ exists |-> FALSE, content |-> NoFile, mtime |-> 0 ]

\* the values model_dirs takes: None (the empty list) or a list of directories
ModelDirLists ==
  { <<>>, <<"runs/static_v1">>, <<"runs/motion_v1", "runs/static_v1">>,
    <<"runs/static_v1", "runs/motion_v1">> }

\* the values saved_config_path takes: None or <dir>/saved_settings.ini
SavedPaths == {"None"} \cup Dirs

\* the model exists whatever the workspace holds
AnyMotionModelExistsAlways(model_dirs) == TRUE

\* lines 52-74
AnyMotionModelExists(model_dirs) ==
  \/ \E n \in 1..Len(model_dirs) : model_dirs[n] \in models
  \/ \E d \in models : MotionNamed(d)

\* max(paths, key = os.path.getmtime) of a list: the first of the newest
FirstNewest(paths) ==
  LET newest(n) == \A m \in 1..Len(paths) :
                     snapshots[paths[m]].mtime <= snapshots[paths[n]].mtime
  IN  paths[CHOOSE n \in 1..Len(paths) :
              newest(n) /\ \A m \in 1..(n - 1) : ~newest(m)]

\* lines 144-153: glob lists the matches in no particular order, so any of the
\* newest may be returned
FindSavedConfig ==
  LET matches == { d \in Dirs : snapshots[d].exists }
  IN  IF matches = {} THEN {"None"}
      ELSE { d \in matches : \A e \in matches : snapshots[e].mtime <= snapshots[d].mtime }

\* lines 202-211: the snapshot chosen from the arguments
SavedPathFromArgs(saved_config_path, model_dirs) ==
  IF saved_config_path # "None" THEN saved_config_path
  ELSE LET candidates == SelectSeq(model_dirs, LAMBDA d : snapshots[d].exists)
       IN  IF candidates # <<>> THEN FirstNewest(candidates) ELSE "None"

Bool(b) == IF b THEN "True" ELSE "False"

NoCheck ==
  [ called |-> FALSE, saved_config_path |-> "None", model_dirs |-> <<>>,
    saved_path |-> "None", outcome |-> "" ]

\* lines 186-224
CheckSettingsChanged ==
  /\ bpc = "off" /\ gpc = "idle"
  /\ \E saved_config_path \in SavedPaths, model_dirs \in ModelDirLists :
       IF ~config.exists
       THEN check' = [ called |-> TRUE, saved_config_path |-> saved_config_path,
                       model_dirs |-> model_dirs, saved_path |-> "None",
                       outcome |-> "FileNotFoundError" ]
       ELSE LET now == ReadMotionSettings(config)
                fromArgs == SavedPathFromArgs(saved_config_path, model_dirs)
            IN  \E saved_path \in (IF fromArgs = "None" THEN FindSavedConfig
                                   ELSE {fromArgs}) :
                  check' = [ called |-> TRUE,
                             saved_config_path |-> saved_config_path,
                             model_dirs |-> model_dirs,
                             saved_path |-> saved_path,
                             outcome |->
                               IF saved_path = "None" \/ ~snapshots[saved_path].exists
                               THEN Bool(AnyMotionModelExists(model_dirs))
                               ELSE Bool(SettingsDifferent(now,
                                      ReadMotionSettings(snapshots[saved_path].content))) ]
  /\ UNCHANGED <<config, config_mtime, clock, snapshots, models, regen_runs,
                 genVars, batchVars>>

\* lines 169-183
RunRegeneration ==
  /\ bpc = "off" /\ gpc = "idle"
  /\ regen_runs < MaxRegen
  /\ regen_runs' = regen_runs + 1
  /\ UNCHANGED <<config, config_mtime, clock, snapshots, models, check,
                 genVars, batchVars>>

\* lines 156-166: shutil.copy2 keeps the settings file's mtime
SaveConfigWithModel ==
  /\ bpc = "off" /\ gpc = "idle"
  /\ config.exists
  /\ \E d \in Dirs :
       snapshots' = [ snapshots EXCEPT ![d] =
                        [ exists |-> TRUE, content |-> config, mtime |-> config_mtime ] ]
  /\ UNCHANGED <<config, config_mtime, clock, models, regen_runs, check,
                 genVars, batchVars>>

\* the user edits BehaveAI_settings.ini
EditConfig ==
  /\ bpc = "off" /\ gpc = "idle"
  /\ clock < MaxClock
  /\ \E file \in IniFiles \ {config} :
       config' = file
  /\ clock' = clock + 1
  /\ config_mtime' = clock + 1
  /\ UNCHANGED <<snapshots, models, regen_runs, check, genVars, batchVars>>

\* a training run leaves <dir>/train/weights/best.pt
BuildModel ==
  /\ bpc = "off" /\ gpc = "idle"
  /\ \E d \in Dirs \ models :
       models' = models \cup {d}
  /\ UNCHANGED <<config, config_mtime, clock, snapshots, regen_runs, check,
                 genVars, batchVars>>

WatchStep ==
  \/ CheckSettingsChanged \/ RunRegeneration \/ SaveConfigWithModel
  \/ EditConfig \/ BuildModel

WatchOff ==
  /\ config = NoFile /\ config_mtime = 0 /\ clock = 0
  /\ snapshots = [ d \in Dirs |-> NoSnapshot ]
  /\ models = {} /\ regen_runs = 0 /\ check = NoCheck

BatchOff ==
  /\ bpc = "off" /\ base_names = {} /\ pending = {} /\ current = NoItem
  /\ written = {} /\ log = <<>>

vars == <<genVars, batchVars, watchVars>>

\* one call of generate_base_images
Init ==
  /\ gpc = "call"
  /\ params \in ParamSpace
  /\ video \in VideoSpace
  /\ frame_num \in 0..MaxTarget
  /\ GenFresh
  /\ BatchOff
  /\ WatchOff

Next == GenStep

Spec == Init /\ [][Next]_vars

\* one run of regenerate_annotations
InitBatch ==
  /\ bpc = "loop"
  /\ params \in BatchParamSpace
  /\ base_names \in { b \in SUBSET Catalog : Cardinality(b) \in 1..MaxItems }
  /\ pending = base_names
  /\ current = NoItem
  /\ written = {}
  /\ log = <<>>
  /\ gpc = "idle"
  /\ video = NoVideo
  /\ frame_num = 0
  /\ GenFresh
  /\ WatchOff

NextBatch == BatchStep \/ GenStep

SpecBatch == InitBatch /\ [][NextBatch]_vars

\* a workspace in which the settings are edited, models built and checks made
InitWatch ==
  /\ config \in IniFiles \cup {NoFile}
  /\ config_mtime = 0
  /\ clock = 0
  /\ snapshots = [ d \in Dirs |-> NoSnapshot ]
  /\ models = {}
  /\ regen_runs = 0
  /\ check = NoCheck
  /\ gpc = "idle"
  /\ params = NoParams
  /\ video = NoVideo
  /\ frame_num = 0
  /\ GenFresh
  /\ BatchOff

NextWatch == WatchStep

SpecWatch == InitWatch /\ [][NextWatch]_vars

FairSpec == Spec /\ WF_vars(Next)

\* ------------------------------------------------------------------ claims
BaseN == params.base_frame_window

Stride == params.frame_skip + 1

Sampled == gpc \in {"sampled", "diff", "returned"}

Returned == gpc = "returned"

Present == ret.static # NoImg /\ ret.motion # NoImg

Absent == ret.static = NoImg /\ ret.motion = NoImg

LastIdx == collected[Len(collected)].idx

\* the start index before clamping
RawStart == frame_num - (BaseN - 1) * Stride

ClampedStart == IF RawStart > 0 THEN RawStart ELSE 0

\* the video opened, reported frames and the start index was accepted
StartAccepted ==
  video.openable /\ video.total_frames > 0 /\ ClampedStart <= video.total_frames - 1

\* C1: with an unclamped start, a target inside the video and no failed
\* decode, exactly base_N frames are retained, at start, start + step, ...,
\* start + (base_N - 1) * step, so the last retained frame and the returned
\* static image are the frame at frame_num.
C1_FullWindowEndsAtTarget ==
  ( /\ Sampled
    /\ video.openable
    /\ RawStart >= 0
    /\ frame_num <= video.total_frames - 1
    /\ ~read_failed )
  => /\ Len(collected) = BaseN
     /\ \A k \in 1..BaseN : collected[k].idx = RawStart + (k - 1) * Stride
     /\ LastIdx = frame_num
     /\ (Returned /\ ret.static # NoImg) => ret.static.idx = frame_num

C1_Witness ==
  /\ Returned /\ video.openable /\ ~read_failed
  /\ RawStart > 0 /\ frame_num <= video.total_frames - 1
  /\ BaseN >= 3 /\ Stride = 2
  /\ Len(collected) = BaseN
  /\ ret.static # NoImg /\ ret.static.idx = frame_num

\* C2: the last retained frame never lies after frame_num, also when the
\* start index was clamped to 0.
C2_WindowEndsAtOrBeforeTarget ==
  (Sampled /\ collected # <<>>) => LastIdx <= frame_num

\* C3: a target at or beyond the reported frame count yields (None, None).
C3_TargetBeyondLengthIsAbsent ==
  (Returned /\ frame_num >= video.total_frames) => Absent

\* C4: with base_N >= 2, at least base_N * step frames, a target inside the
\* video and no failed decode, the returned pair is present, clamped start
\* included.
C4_LongEnoughVideoGivesImages ==
  ( /\ Returned
    /\ video.openable
    /\ BaseN >= 2
    /\ video.total_frames >= BaseN * Stride
    /\ frame_num <= video.total_frames - 1
    /\ ~read_failed )
  => Present

C4_Witness ==
  /\ Returned /\ video.openable /\ ~read_failed
  /\ BaseN >= 2 /\ video.total_frames >= BaseN * Stride
  /\ frame_num <= video.total_frames - 1
  /\ RawStart < 0 /\ start_frame = 0
  /\ Present

\* C5: once the start index is accepted, the result is absent exactly when
\* fewer than 2 frames were retained: always with base_N = 1, never for a
\* partial window of at least 2 frames.
C5_AbsentIffFewerThanTwo ==
  (Returned /\ StartAccepted)
  => /\ Absent <=> Len(collected) < 2
     /\ Present <=> Len(collected) >= 2
     /\ BaseN = 1 => Absent

C5_Witness ==
  /\ Returned /\ StartAccepted
  /\ Len(collected) >= 2 /\ Len(collected) < BaseN
  /\ Present

\* the grayscale of the k-th frame handed to the diff loop
GrayOf(k) == BGR2GRAY(collected[k].px)

Processed == di - 1

\* C6: sequential strategy: once 3 or more frames are processed, ref[0],
\* ref[1], ref[2] are the grayscales of the current frame, the frame before it
\* and the frame two before it.
C6_SequentialRefsAreLastThree ==
  ( /\ gpc \in {"diff", "returned"}
    /\ params.strategy = "sequential"
    /\ Processed >= 3 )
  => prev_frames = << GrayOf(Processed), GrayOf(Processed - 1), GrayOf(Processed - 2) >>

C6_Witness ==
  /\ gpc = "diff"
  /\ params.strategy = "sequential"
  /\ Processed = 4
  /\ prev_frames = << GrayOf(4), GrayOf(3), GrayOf(2) >>
  /\ GrayOf(4) # GrayOf(3) /\ GrayOf(3) # GrayOf(2) /\ GrayOf(4) # GrayOf(2)
  /\ GrayOf(2) # GrayOf(1)

NonNeg(x) == IF x > 0 THEN x ELSE 0

\* the signals the claim blends: the diffs, or the clamped tails
C7_Signals ==
  IF params.chromatic_tail_only = "true"
  THEN << NonNeg(diffs[1] - diffs[2]), NonNeg(diffs[2] - diffs[1]),
          NonNeg(diffs[3] - diffs[2]) >>
  ELSE diffs

C7_Out(x, mult10) ==
  Saturate8(RoundDiv(gray * params.lum_weight + x * mult10
                     + params.motion_threshold * 10, 10))

\* C7: blue, green, red blend the luminance with signal 0, 1, 2 weighted by
\* rgb_multipliers 2, 1, 0; the signals are the diffs or, in chromatic tail
\* mode, the differences of diffs clamped at 0; tails are never negative and
\* every output value is in 0..255.
C7_CrossMappedBlend ==
  (Returned /\ Present)
  => /\ ret.motion.px = << C7_Out(C7_Signals[1], params.rgb_multipliers[3]),
                           C7_Out(C7_Signals[2], params.rgb_multipliers[2]),
                           C7_Out(C7_Signals[3], params.rgb_multipliers[1]) >>
     /\ params.chromatic_tail_only = "true"
          => (tails = C7_Signals /\ \A j \in 1..3 : tails[j] >= 0)
     /\ \A c \in 1..3 : ret.motion.px[c] \in 0..255

C7_Witness ==
  /\ Returned /\ Present
  /\ params.chromatic_tail_only = "true"
  /\ diffs[1] < diffs[2] /\ diffs[3] > diffs[2]
  /\ tails[1] = 0 /\ tails[2] > 0 /\ tails[3] > 0
  /\ ret.motion.px[1] # ret.motion.px[3]
  /\ \A c \in 1..3 : ret.motion.px[c] \in 1..254

\* C10: the call returns, and it never makes more than frame_window + 10
\* decode attempts, whatever the reported frame count and the decoder do.
C10_SamplingTerminatesWithinCap ==
  /\ [](attempts <= BaseN * Stride + 10)
  /\ <>Returned

C10_Witness ==
  /\ Returned
  /\ read_failed
  /\ attempts = (BaseN - 1) * Stride + 1
  /\ attempts >= 4


\* the three per-item failures the batch tolerates before calling the core
FailsBeforeCall(item) == ~item.token_is_int \/ ~item.has_video

LoggedNames == { log[k].name : k \in 1..Len(log) }

\* C9: an item with a non-integer frame token, without a video file, or for
\* which generate_base_images returned (None, None) is skipped: no image is
\* written for it, the loop goes on with the remaining items untouched, and a
\* run that is not ended by another fault handles every item.
C9_FailedItemNeverAbortsBatch ==
  [][ /\ \A item \in pending :
           (bpc = "loop" /\ FailsBeforeCall(item) /\ current' = item /\ pending' # pending)
           => /\ bpc' = "loop"
              /\ written' = written
              /\ pending' = pending \ {item}
              /\ Len(log') = Len(log) + 1
      /\ (bpc = "generate" /\ gpc = "returned" /\ Absent /\ bpc' # bpc)
           => /\ bpc' = "loop"
              /\ written' = written
              /\ pending' = pending
              /\ Len(log') = Len(log) + 1
      /\ bpc' = "aborted" => (bpc = "generate" /\ Present /\ ~current.mask_ok)
      /\ bpc' = "done" => { item.name : item \in base_names } = LoggedNames
    ]_vars

C9_Witness ==
  /\ bpc = "done"
  /\ Len(log) = 2
  /\ log[1].what \in {"skipped: token", "skipped: video not found", "skipped: no images"}
  /\ log[2].what = "regenerated"
  /\ written = {log[2].name}


\* the snapshots among which the claim lets the call choose: the explicit
\* path, else the newest under model_dirs, else the newest of the workspace
C8_Newest(among) ==
  { d \in among : snapshots[d].exists
                  /\ \A e \in among : snapshots[e].exists
                                      => snapshots[e].mtime <= snapshots[d].mtime }

C8_Found(saved_config_path, model_dirs) ==
  LET listed == { model_dirs[n] : n \in 1..Len(model_dirs) }
  IN  IF saved_config_path # "None"
      THEN { d \in {saved_config_path} : snapshots[d].exists }
      ELSE IF C8_Newest(listed) # {} THEN C8_Newest(listed)
      ELSE C8_Newest(Dirs)

\* a built motion model: best.pt under a listed directory or a *motion* one
C8_ModelBuilt(model_dirs) ==
  \E d \in models : MotionNamed(d) \/ \E n \in 1..Len(model_dirs) : model_dirs[n] = d

C8_Expected(call) ==
  LET found == C8_Found(call.saved_config_path, call.model_dirs)
  IN  IF found # {}
      THEN \E d \in found :
             call.outcome = Bool(SettingsDifferent(ReadMotionSettings(config),
                                   ReadMotionSettings(snapshots[d].content)))
      ELSE call.outcome = Bool(C8_ModelBuilt(call.model_dirs))

C11_LoopStep == gpc = "diff" /\ di <= Len(collected) /\ di' = di + 1

C11_Distance(a, b) == IF a >= b THEN a - b ELSE b - a

\* C11: the first frame sets the three references to its grayscale and yields
\* no diff; at every later frame diff[j] is |gray - ref[j]| with ref[j] as it
\* was before this step's update, for both strategies; luminance and static
\* image are those of the frame just handled, and the return composes the
\* images from the diffs, luminance and frame of the last retained frame.
C11_DiffsUsePreUpdateRefs ==
  [][ /\ (C11_LoopStep /\ di = 1)
         => /\ prev_frames' = << GrayOf(1), GrayOf(1), GrayOf(1) >>
            /\ diffs' = NoDiffs
            /\ gray' = GrayOf(1)
            /\ static_img' = collected[1]
      /\ (C11_LoopStep /\ di > 1)
         => /\ diffs' = << C11_Distance(GrayOf(di), prev_frames[1]),
                           C11_Distance(GrayOf(di), prev_frames[2]),
                           C11_Distance(GrayOf(di), prev_frames[3]) >>
            /\ gray' = GrayOf(di)
            /\ static_img' = collected[di]
      /\ (gpc = "diff" /\ gpc' = "returned" /\ Present')
         => /\ di = Len(collected) + 1
            /\ static_img = collected[Len(collected)]
            /\ gray = GrayOf(Len(collected))
            /\ diffs' = diffs /\ gray' = gray /\ prev_frames' = prev_frames
            /\ ret'.static = collected[Len(collected)]
            /\ ret'.motion.px =
                 Blend(gray, IF params.chromatic_tail_only = "true"
                             THEN TailsOf(diffs) ELSE diffs, params)
    ]_vars

C11_Witness ==
  /\ Returned /\ Present
  /\ params.strategy = "exponential"
  /\ Len(collected) >= 3
  /\ gray = GrayOf(Len(collected))
  /\ prev_frames[1] = gray
  /\ diffs[1] > 0 /\ diffs[2] > 0 /\ diffs[3] > 0
  /\ diffs[1] # diffs[2] /\ diffs[2] # diffs[3]
  /\ diffs[2] # C11_Distance(gray, prev_frames[2])

\* C12: every return of a call that opened the video comes after exactly one
\* cap.release(), and the two returned values are both absent or both present.
C12_ReleasedOnceAndPaired ==
  /\ releases <= 1
  /\ (Returned /\ video.openable)
     => /\ releases = 1
        /\ ~cap_open
        /\ (Absent \/ Present)

C12_Witness ==
  /\ Returned /\ video.openable
  /\ video.total_frames > 0
  /\ Len(collected) = 1
  /\ Absent
  /\ releases = 1 /\ ~cap_open

====
